---- MODULE Spec2Model ----
(***************************************************************************)
(* Model of the merlo-rs character-movement core:                          *)
(*   crates/simulation/src/controller.rs  (CharacterControllerPlugin)      *)
(*   crates/presentation/src/network.rs   (network::init)                  *)
(*   crates/presentation/src/main.rs      (spawn / bundle configuration)   *)
(*   crates/presentation/src/animation.rs (state-based classifier)         *)
(*   src/controller.rs, src/presentation/animation.rs                      *)
(*                                        (the velocity-based variant)     *)
(*                                                                         *)
(* Numbers.  Every f32 of the program is modelled as a fixed-point integer *)
(* in thousandths (1.0 is 1000), except MovementAcceleration which is kept *)
(* in whole units so that products stay inside TLC's 32-bit integers.      *)
(* Sums of the values used here are exact in f32 as well; square roots are *)
(* truncated toward zero.                                                  *)
(*                                                                         *)
(* A frame of the Bevy app is modelled as the stage sequence               *)
(*   PreUpdate -> Input -> Grounded -> Movement -> PostUpdate              *)
(* where Input/Grounded/Movement are this repository's system sets (they   *)
(* are `.chain()`ed) and PreUpdate/PostUpdate are the steps of the         *)
(* collaborators (transport/replication and the physics solver).           *)
(***************************************************************************)
EXTENDS Integers, Sequences, FiniteSets, TLC

\* Most messages a remote peer delivers to the authority within one frame.
MaxMessages == 2

(***************************************************************************)
(* Arithmetic helpers (fixed point).                                       *)
(***************************************************************************)
Abs(a) == IF a < 0 THEN -a ELSE a

\* f32 division of a by b > 0, truncated toward zero.
DivT(a, b) == IF a >= 0 THEN a \div b ELSE -((-a) \div b)

RECURSIVE ISqrtIter(_, _, _)
ISqrtIter(n, lo, hi) ==
    IF hi - lo <= 1 THEN lo
    ELSE LET mid == (lo + hi) \div 2
         IN  IF mid * mid <= n THEN ISqrtIter(n, mid, hi) ELSE ISqrtIter(n, lo, mid)

\* f32::sqrt, truncated.
ISqrt(n) == ISqrtIter(n, 0, 46340)

\* f32::clamp per component.
Clamp(a, lo, hi) == IF a < lo THEN lo ELSE IF a > hi THEN hi ELSE a

(***************************************************************************)
(* glam::Vec3                                                              *)
(***************************************************************************)
Vec3(a, b, c) == [x |-> a, y |-> b, z |-> c]

ZERO == Vec3(0, 0, 0)

VecAdd(u, v) == Vec3(u.x + v.x, u.y + v.y, u.z + v.z)

VecNeg(v) == Vec3(-v.x, -v.y, -v.z)

VecClamp(v, lo, hi) ==
    Vec3(Clamp(v.x, lo.x, hi.x), Clamp(v.y, lo.y, hi.y), Clamp(v.z, lo.z, hi.z))

\* length_squared, in millionths
LengthSq(v) == v.x * v.x + v.y * v.y + v.z * v.z

\* Vec3::clamp_length_max(1.0): v when |v| <= 1, else v / |v|.
clamp_length_max(v) ==
    IF LengthSq(v) > 1000 * 1000
    THEN LET len == ISqrt(LengthSq(v))
         IN  Vec3(DivT(v.x * 1000, len), DivT(v.y * 1000, len), DivT(v.z * 1000, len))
    ELSE v

\* Vec3::normalize_or_zero: v / |v|, or ZERO when the reciprocal length is not
\* finite and positive (v is zero).
normalize_or_zero(v) ==
    IF LengthSq(v) = 0 THEN ZERO
    ELSE LET len == ISqrt(LengthSq(v))
         IN  Vec3(DivT(v.x * 1000, len), DivT(v.y * 1000, len), DivT(v.z * 1000, len))

\* Quat * Vec3 for a rotation about the Y axis by yaw quarter turns.
Rotate(yaw, v) ==
    CASE yaw = 0 -> v
      [] yaw = 1 -> Vec3(v.z, v.y, -v.x)
      [] yaw = 2 -> Vec3(-v.x, v.y, -v.z)
      [] yaw = 3 -> Vec3(-v.z, v.y, v.x)

(***************************************************************************)
(* Program constants (thousandths unless noted).                           *)
(***************************************************************************)
\* CharacterMovementState::default speed, the "run" preset 0.15
RunSpeed == 150
\* the "walk" preset 0.05
WalkSpeed == 50
\* yaw gain: angvel.y = rotating * 4.0
YawGain == 4
\* with_movement(60.0, 8.0, 30 degrees): MovementAcceleration, whole units
Acceleration == 60
\* JumpImpulse 8.0
JumpImpulseValue == 8000
\* MaxSlopeAngle, in whole degrees
MaxSlopeAngleDeg == 30

MIN_DIRECTION == Vec3(-1000, -1000, -1000)

MAX_DIRECTION == Vec3(1000, 1000, 1000)

\* Every component of v is within [-1, 1].
InUnitBox(v) == VecClamp(v, MIN_DIRECTION, MAX_DIRECTION) = v

(***************************************************************************)
(* enum MovementAction.  One record shape for every variant; the fields a  *)
(* variant does not carry are zero.                                        *)
(***************************************************************************)
Action(k, v, n, b) == [kind |-> k, vec |-> v, num |-> n, flag |-> b]

AddMove(v) == Action("AddMove", v, 0, FALSE)

SetMove(v) == Action("SetMove", v, 0, FALSE)

SetSpeed(n) == Action("SetSpeed", ZERO, n, FALSE)

RotateRight(b) == Action("RotateRight", ZERO, 0, b)

RotateLeft(b) == Action("RotateLeft", ZERO, 0, b)

SetRotate(n) == Action("SetRotate", ZERO, n, FALSE)

SetJump(b) == Action("SetJump", ZERO, 0, b)

(***************************************************************************)
(* struct CharacterMovementState and its methods.                          *)
(***************************************************************************)
DefaultMovementState ==
    [ speed          |-> RunSpeed,
      direction      |-> ZERO,
      jumping        |-> FALSE,
      rotating       |-> 0,
      rotating_right |-> FALSE,
      rotating_left  |-> FALSE,
      grounded       |-> TRUE ]

\* add_direction without the clamp.
add_direction_unclamped(self, direction) ==
    [self EXCEPT !.direction = VecAdd(self.direction, direction)]

\* add_direction with `=` in place of `+=`.
add_direction_assign(self, direction) ==
    [self EXCEPT !.direction = VecClamp(direction, MIN_DIRECTION, MAX_DIRECTION)]

add_direction(self, direction) ==
    [self EXCEPT !.direction =
        VecClamp(VecAdd(self.direction, direction), MIN_DIRECTION, MAX_DIRECTION)]

\* apply_right_left_rotation with the two signs exchanged.
apply_right_left_rotation_swapped(self) ==
    [self EXCEPT !.rotating =
        IF self.rotating_right /\ ~self.rotating_left THEN 1000
        ELSE IF ~self.rotating_right /\ self.rotating_left THEN -1000
        ELSE 0]

apply_right_left_rotation(self) ==
    [self EXCEPT !.rotating =
        IF self.rotating_right /\ ~self.rotating_left THEN -1000
        ELSE IF ~self.rotating_right /\ self.rotating_left THEN 1000
        ELSE 0]

is_moving(self) == self.direction # ZERO

\* is_moving_backwards testing the sideways axis.
is_moving_backwards_sideways(self) == self.direction.x < 0

is_moving_backwards(self) == self.direction.z < 0

is_running(self) == self.speed >= RunSpeed

\* Velocity::default(): linvel and angvel zero.  Only angvel.y is kept, the
\* other two rotation axes are locked (LockedAxes).
DefaultVelocity == [linvel |-> ZERO, angvel_y |-> 0]

(***************************************************************************)
(* fn movement, the body of `for mut data in &mut controllers` for one     *)
(* controller.  acc = [ms, set_rotation] is what the loop over the         *)
(* messages carries.                                                       *)
(***************************************************************************)
\* The match with a SetJump arm that also writes grounded.
FoldAction_JumpGrounds(acc, a) ==
    CASE a.kind = "AddMove"     -> [acc EXCEPT !.ms = add_direction(acc.ms, a.vec)]
      [] a.kind = "SetMove"     -> [acc EXCEPT !.ms.direction = a.vec]
      [] a.kind = "SetSpeed"    -> [acc EXCEPT !.ms.speed = a.num]
      [] a.kind = "RotateRight" -> [acc EXCEPT !.ms.rotating_right = a.flag]
      [] a.kind = "RotateLeft"  -> [acc EXCEPT !.ms.rotating_left = a.flag]
      [] a.kind = "SetRotate"   -> [acc EXCEPT !.set_rotation = a.num]
      [] a.kind = "SetJump"     -> [acc EXCEPT !.ms.jumping = a.flag, !.ms.grounded = a.flag]

\* The match with a SetJump arm that drops a request made in the air.
FoldAction_DropAirborneJump(acc, a) ==
    CASE a.kind = "AddMove"     -> [acc EXCEPT !.ms = add_direction(acc.ms, a.vec)]
      [] a.kind = "SetMove"     -> [acc EXCEPT !.ms.direction = a.vec]
      [] a.kind = "SetSpeed"    -> [acc EXCEPT !.ms.speed = a.num]
      [] a.kind = "RotateRight" -> [acc EXCEPT !.ms.rotating_right = a.flag]
      [] a.kind = "RotateLeft"  -> [acc EXCEPT !.ms.rotating_left = a.flag]
      [] a.kind = "SetRotate"   -> [acc EXCEPT !.set_rotation = a.num]
      [] a.kind = "SetJump"     -> [acc EXCEPT !.ms.jumping = a.flag /\ acc.ms.grounded]

\* one arm of `match &event.message`
FoldAction(acc, a) ==
    CASE a.kind = "AddMove"     -> [acc EXCEPT !.ms = add_direction(acc.ms, a.vec)]
      [] a.kind = "SetMove"     -> [acc EXCEPT !.ms.direction = a.vec]
      [] a.kind = "SetSpeed"    -> [acc EXCEPT !.ms.speed = a.num]
      [] a.kind = "RotateRight" -> [acc EXCEPT !.ms.rotating_right = a.flag]
      [] a.kind = "RotateLeft"  -> [acc EXCEPT !.ms.rotating_left = a.flag]
      [] a.kind = "SetRotate"   -> [acc EXCEPT !.set_rotation = a.num]
      [] a.kind = "SetJump"     -> [acc EXCEPT !.ms.jumping = a.flag]

\* The loop reading the messages last to first.
RECURSIVE FoldMessages_Reversed(_, _)
FoldMessages_Reversed(acc, msgs) ==
    IF msgs = <<>> THEN acc
    ELSE FoldAction(FoldMessages_Reversed(acc, Tail(msgs)), Head(msgs))

\* `for event in movement_reader.read()`, in arrival order
RECURSIVE FoldMessages(_, _)
FoldMessages(acc, msgs) ==
    IF msgs = <<>> THEN acc
    ELSE FoldMessages(FoldAction(acc, Head(msgs)), Tail(msgs))

\* `let direction = ...clamp_length_max(1.0)`: the local copy the velocity
\* command is derived from (the stored direction is not written back)
CommandDirection(ms) == clamp_length_max(ms.direction)

\* `world = (transform.rotation * direction).normalize_or_zero()`
WorldDirection(ms, yaw) == normalize_or_zero(Rotate(yaw, CommandDirection(ms)))

\* `let speed = if is_moving_backwards() { 0.05 } else { speed }`
EffectiveSpeed(ms) == IF is_moving_backwards(ms) THEN WalkSpeed ELSE ms.speed

\* world.c * movement_acceleration * speed, for one component c (thousandths)
HorizontalVelocity(c, ms) == DivT(c * Acceleration * EffectiveSpeed(ms), 1000)

\* `if set_rotation == 0.0 { apply_right_left_rotation() } else { rotating = set_rotation }`
RotationRule(ms, set_rotation) ==
    IF set_rotation = 0 THEN apply_right_left_rotation(ms)
    ELSE [ms EXCEPT !.rotating = set_rotation]

\* JumpRule that never applies the impulse.
JumpRule_Never(ms, vy) == vy

\* JumpRule without the grounded test.
JumpRule_IgnoreGrounded(ms, vy) == IF ms.jumping THEN JumpImpulseValue ELSE vy

\* `if grounded && jumping { linvel.y = jump_impulse }`
JumpRule(ms, vy) == IF ms.grounded /\ ms.jumping THEN JumpImpulseValue ELSE vy

\* The loop body with a jump rule that consumes the request.
ControllerStep_ClearsJump(ms, vel, yaw, msgs) ==
    LET acc   == FoldMessages([ms |-> ms, set_rotation |-> 0], msgs)
        ms2   == RotationRule(acc.ms, acc.set_rotation)
        world == WorldDirection(ms2, yaw)
    IN  [ ms  |-> [ms2 EXCEPT !.jumping = @ /\ ~ms2.grounded],
          vel |-> [ linvel   |-> Vec3(HorizontalVelocity(world.x, ms2),
                                      JumpRule(ms2, vel.linvel.y),
                                      HorizontalVelocity(world.z, ms2)),
                    angvel_y |-> ms2.rotating * YawGain ] ]

\* The loop body of a controller that stops when a tick brings no message.
ControllerStep_IdleStops(ms, vel, yaw, msgs) ==
    LET acc   == FoldMessages([ms |-> ms, set_rotation |-> 0], msgs)
        held  == IF msgs = <<>> THEN [acc.ms EXCEPT !.direction = ZERO] ELSE acc.ms
        ms2   == RotationRule(held, acc.set_rotation)
        world == WorldDirection(ms2, yaw)
    IN  [ ms  |-> ms2,
          vel |-> [ linvel   |-> Vec3(HorizontalVelocity(world.x, ms2),
                                      JumpRule(ms2, vel.linvel.y),
                                      HorizontalVelocity(world.z, ms2)),
                    angvel_y |-> ms2.rotating * YawGain ] ]

\* The loop body without the reset of linvel.x, linvel.z and angvel.y.
ControllerStep_Accumulates(ms, vel, yaw, msgs) ==
    LET acc   == FoldMessages([ms |-> ms, set_rotation |-> 0], msgs)
        ms2   == RotationRule(acc.ms, acc.set_rotation)
        world == WorldDirection(ms2, yaw)
    IN  [ ms  |-> ms2,
          vel |-> [ linvel   |-> Vec3(vel.linvel.x + HorizontalVelocity(world.x, ms2),
                                      JumpRule(ms2, vel.linvel.y),
                                      vel.linvel.z + HorizontalVelocity(world.z, ms2)),
                    angvel_y |-> vel.angvel_y + ms2.rotating * YawGain ] ]

\* The whole loop body: [ms, vel] after the step of a controller that had
\* movement state ms, velocity vel and facing yaw, and read msgs.
ControllerStep(ms, vel, yaw, msgs) ==
    LET acc   == FoldMessages([ms |-> ms, set_rotation |-> 0], msgs)
        ms2   == RotationRule(acc.ms, acc.set_rotation)
        world == WorldDirection(ms2, yaw)
    IN  [ ms  |-> ms2,
          vel |-> [ linvel   |-> Vec3(HorizontalVelocity(world.x, ms2),
                                      JumpRule(ms2, vel.linvel.y),
                                      HorizontalVelocity(world.z, ms2)),
                    angvel_y |-> ms2.rotating * YawGain ] ]

\* has_server_authority with the sense of the test inverted.
has_server_authority_inverted(client_state) == client_state # "Disconnected"

\* fn has_server_authority
has_server_authority(client_state) == client_state = "Disconnected"

(***************************************************************************)
(* State.                                                                  *)
(***************************************************************************)
VARIABLES
    mode,            \* NetworkMode returned by network::init
    renet,           \* status of the RenetClient resource: none/connecting/connected/disconnected
    client_state,    \* State<ClientState>
    stage,           \* the next step of the frame
    keys,            \* ButtonInput<KeyCode>: the keys currently pressed
    messages,        \* unread FromClient<MovementAction> messages, in arrival order
    sent,            \* MovementActions handed to the transport in this frame (client)
    entities,        \* the controller entities of this process's world
    movement_state,  \* entity -> CharacterMovementState
    velocity,        \* entity -> Velocity
    yaw,             \* entity -> Transform.rotation, in quarter turns about Y
    movementRan,     \* the `movement` system ran in this frame (run_if was true)
    folded,          \* the messages `movement_reader.read()` yielded in this frame
    calls,           \* bookkeeping of direct add_direction calls: the direction
                     \* before the first call, the vectors added and not yet
                     \* negated, whether a call hit the clamp, whether a negating
                     \* call was made
    probe,           \* what update_grounded saw in this frame: whether it ran,
                     \* whether the physics context was available, the ray-cast
                     \* result per entity, the grounded it found on entry, and
                     \* whether the previous frame's run had no physics context
    animation_players, \* controller entity -> the AnimationPlayer of its scene, once
                     \* spawned: CurrentAnimation, the clip and blend time of the
                     \* last play call, and what update_animation did in this frame
    animationRan,    \* update_animation ran in this frame
    legacy,          \* the world of the velocity-based variant (src/src): the
                     \* Grounded marker and the Velocity of its characters, its
                     \* animation players and the clip each is playing, the
                     \* Local<usize> of its update_animation and the clips it
                     \* played on each player in its last run
    input,           \* the devices besides the keyboard and the Input set: the
                     \* systems of the set that ran in this frame, whether the
                     \* right mouse button and the gamepad's South button are
                     \* pressed, the MouseMotion events mouse_reader has not
                     \* read, and the events summed into the last SetRotate
    airborne_request \* the controllers whose latest folded SetJump was
                     \* SetJump(true), folded in a frame that found them airborne

vars == << mode, renet, client_state, stage, keys, messages, sent, entities,
           movement_state, velocity, yaw, movementRan, folded, calls, probe,
           animation_players, animationRan, legacy, input, airborne_request >>

NetworkModes == {"Singleplayer", "Server", "Client"}

\* All sequences over S of length at most n.
SeqsUpTo(S, n) == UNION {[1..k -> S] : k \in 0..n}

Opt(cond, a) == IF cond THEN <<a>> ELSE <<>>

\* fn setup / network::init: what the Startup schedule leaves behind.
\* Only Cli::Client inserts a RenetClient; only NetworkMode::Server spawns the
\* Player, whose Add observer inserts the CharacterControllerBundle.
init(m) ==
    /\ mode = m
    /\ renet = IF m = "Client" THEN "connecting" ELSE "none"
    /\ client_state = "Disconnected"
    /\ entities = IF m = "Server" THEN {1} ELSE {}

NoCalls(d) == [start |-> d, pending |-> <<>>, clamp_hit |-> FALSE, negated |-> FALSE]

\* update_grounded has not run in this frame.
NoProbe == [ran |-> FALSE, ok |-> FALSE, rays |-> <<>>, before |-> <<>>, retry |-> FALSE]

\* update_grounded ran and took its early return: no physics context.
FailedProbe == [ran |-> TRUE, ok |-> FALSE, rays |-> <<>>, before |-> <<>>, retry |-> FALSE]

\* No system of the Input set has run, no button is pressed, no MouseMotion
\* event is unread.
NoInput ==
    [ran |-> {}, rmb |-> FALSE, south |-> FALSE, motion |-> <<>>, summed |-> <<>>]

\* No play call on any of n animation players.
NoPlays(n) == [p \in 1..n |-> <<>>]

\* What play_animation_when_ready of the variant leaves on n animation
\* players: indices[0] playing on each.
FirstClips(n) == [p \in 1..n |-> 0]

\* The velocity-based variant after construction: one character without the
\* Grounded marker, with Velocity::default() and the identity rotation, no
\* second character, one animation player, Local<usize>::default(), nothing
\* played, nothing read by movement and no Jump read in the air.
DefaultLegacy ==
    [grounded |-> FALSE, linvel |-> ZERO, angvel_y |-> 0, facing |-> 0,
     second |-> {}, players |-> 1,
     current_animation |-> 0, played |-> NoPlays(1), clip |-> FirstClips(1),
     previous |-> FirstClips(1), ran |-> FALSE, read |-> <<>>, missed |-> FALSE]

Init ==
    /\ \E m \in NetworkModes : init(m)
    /\ stage = "PreUpdate"
    /\ keys = {}
    /\ messages = <<>>
    /\ sent = <<>>
    /\ movement_state = [e \in entities |-> DefaultMovementState]
    /\ velocity = [e \in entities |-> DefaultVelocity]
    /\ yaw = [e \in entities |-> 0]
    /\ movementRan = FALSE
    /\ folded = <<>>
    /\ calls = NoCalls(ZERO)
    /\ probe = NoProbe
    /\ animation_players = <<>>
    /\ animationRan = FALSE
    /\ legacy = DefaultLegacy
    /\ input = NoInput
    /\ airborne_request = {}

(***************************************************************************)
(* PreUpdate: the collaborators.  The renet backend mirrors the status of  *)
(* the RenetClient into ClientState (a process without a RenetClient stays *)
(* Disconnected); the server receives what the remote peer sent; a         *)
(* connected client receives replicated entities; the message buffers of   *)
(* the previous frame are dropped.  Remote is the set of actions the       *)
(* remote peer may send.                                                   *)
(***************************************************************************)
RenetNext(r) ==
    CASE r = "none"         -> {"none"}
      [] r = "connecting"   -> {"connecting", "connected", "disconnected"}
      [] r = "connected"    -> {"connected", "disconnected"}
      [] r = "disconnected" -> {"disconnected"}

ClientStateOf(r) ==
    CASE r = "none"         -> "Disconnected"
      [] r = "connecting"   -> "Connecting"
      [] r = "connected"    -> "Connected"
      [] r = "disconnected" -> "Disconnected"

\* The controller entities after the replication step: a connected client may
\* receive the replicated Player (its Add observer inserts the bundle); when
\* the connection is lost the replicated entity may stay or be despawned.
EntitiesNext(r2) ==
    IF mode # "Client" THEN {entities}
    ELSE IF r2 = "connected" THEN {entities, {1}}
    ELSE IF r2 = "disconnected" THEN {entities, {}}
    ELSE {entities}

PreUpdate(Remote) ==
    /\ stage = "PreUpdate"
    /\ \E r2 \in RenetNext(renet) :
         /\ renet' = r2
         /\ client_state' = ClientStateOf(r2)
         /\ \E es \in EntitiesNext(r2) :
              /\ entities' = es
              /\ movement_state' = [e \in es |-> IF e \in entities THEN movement_state[e]
                                                 ELSE DefaultMovementState]
              /\ velocity' = [e \in es |-> IF e \in entities THEN velocity[e]
                                           ELSE DefaultVelocity]
              /\ yaw' = [e \in es |-> IF e \in entities THEN yaw[e] ELSE 0]
              /\ animation_players' =
                   [e \in (DOMAIN animation_players) \cap es |->
                      [animation_players[e] EXCEPT !.played = FALSE]]
    /\ \E q \in SeqsUpTo(Remote, MaxMessages) :
         messages' = IF mode = "Server" THEN q ELSE <<>>
    /\ sent' = <<>>
    /\ movementRan' = FALSE
    /\ folded' = <<>>
    /\ probe' = [NoProbe EXCEPT !.retry = probe.ran /\ ~probe.ok]
    /\ animationRan' = FALSE
    /\ stage' = "Input"
    /\ airborne_request' = airborne_request \cap entities'
    /\ UNCHANGED << legacy, input, calls, mode, keys >>

(***************************************************************************)
(* CharacterControllerSet::Input                                           *)
(***************************************************************************)
\* The messages keyboard_input writes, in the order of its statements, for
\* the keys just pressed (jp) and just released (jr) in this frame.
KeyboardActions(jp, jr) ==
       Opt(jp \cap {"KeyW", "ArrowUp"} # {},    AddMove(Vec3(0, 0, 1000)))
    \o Opt(jp \cap {"KeyS", "ArrowDown"} # {},  AddMove(Vec3(0, 0, -1000)))
    \o Opt("KeyQ" \in jp,                       AddMove(Vec3(1000, 0, 0)))
    \o Opt("KeyE" \in jp,                       AddMove(Vec3(-1000, 0, 0)))
    \o Opt("ShiftLeft" \in jp,                  SetSpeed(WalkSpeed))
    \o Opt(jp \cap {"KeyA", "ArrowLeft"} # {},  RotateLeft(TRUE))
    \o Opt(jp \cap {"KeyD", "ArrowRight"} # {}, RotateRight(TRUE))
    \o Opt("Space" \in jp,                      SetJump(TRUE))
    \o Opt(jr \cap {"KeyW", "ArrowUp"} # {},    AddMove(Vec3(0, 0, -1000)))
    \o Opt(jr \cap {"KeyS", "ArrowDown"} # {},  AddMove(Vec3(0, 0, 1000)))
    \o Opt("KeyQ" \in jr,                       AddMove(Vec3(-1000, 0, 0)))
    \o Opt("KeyE" \in jr,                       AddMove(Vec3(1000, 0, 0)))
    \o Opt("ShiftLeft" \in jr,                  SetSpeed(RunSpeed))
    \o Opt(jr \cap {"KeyA", "ArrowLeft"} # {},  RotateLeft(FALSE))
    \o Opt(jr \cap {"KeyD", "ArrowRight"} # {}, RotateRight(FALSE))
    \o Opt("Space" \in jr,                      SetJump(FALSE))

\* add_client_message::<MovementAction>: a written message is sent to the
\* server by a connected client, and re-emitted locally as FromClient when the
\* process is not a client (ClientState::Disconnected).
Write(out) ==
    /\ messages' = IF client_state = "Disconnected" THEN messages \o out ELSE messages
    /\ sent' = IF client_state = "Connected" THEN sent \o out ELSE sent

\* `(keyboard_input, gamepad_input, mouse_input).in_set(Input)`: the systems
\* of the set, which have no order among themselves.
InputSystems == {"keyboard_input", "gamepad_input", "mouse_input"}

\* System s of the Input set runs in a frame in which the systems of
\* Scheduled find their device (the others write nothing and are left out):
\* the set is left, and the next set entered, when all of Scheduled have run.
LeavesInput(s, Scheduled) == Scheduled \subseteq input.ran \cup {s}

RanAfter(s, Scheduled) == IF LeavesInput(s, Scheduled) THEN {} ELSE input.ran \cup {s}

\* The Movement set entered right after Input, before Grounded.
StageAfter_SkipGrounded(s, Scheduled) ==
    IF LeavesInput(s, Scheduled) THEN "Movement" ELSE "Input"

StageAfter(s, Scheduled) == IF LeavesInput(s, Scheduled) THEN "Grounded" ELSE "Input"

\* fn keyboard_input.  K is the set of keys the player uses; the keys of
\* `toggled` change state in this frame.
KeyboardInputAmong(K, Scheduled) ==
    /\ stage = "Input"
    /\ "keyboard_input" \in Scheduled \ input.ran
    /\ \E toggled \in SUBSET K :
         LET jp == toggled \ keys
             jr == toggled \cap keys
         IN  /\ keys' = (keys \ jr) \cup jp
             /\ Write(KeyboardActions(jp, jr))
    /\ input' = [input EXCEPT !.ran = RanAfter("keyboard_input", Scheduled)]
    /\ stage' = StageAfter("keyboard_input", Scheduled)
    /\ UNCHANGED << animation_players, animationRan, legacy, probe, airborne_request,
                    calls, mode, renet, client_state, entities, movement_state,
                    velocity, yaw, movementRan, folded >>

\* keyboard_input on a machine without a gamepad whose right mouse button is
\* never pressed.
KeyboardInput(K) == KeyboardInputAmong(K, {"keyboard_input"})

\* fn gamepad_input with one Gamepad whose left stick reports both axes.
\* Sticks: the (x, y) the stick may report; Toggles: whether the South button
\* may change state in this frame.
GamepadInput(Sticks, Toggles, Scheduled) ==
    /\ stage = "Input"
    /\ "gamepad_input" \in Scheduled \ input.ran
    /\ \E stick \in Sticks, toggled \in Toggles :
         LET just_pressed  == toggled /\ ~input.south
             just_released == toggled /\ input.south
         IN  /\ Write(   <<SetMove(Vec3(stick[1], 0, stick[2]))>>
                      \o Opt(just_pressed, SetJump(TRUE))
                      \o Opt(just_released, SetJump(FALSE)))
             /\ input' = [input EXCEPT !.south = (@ # toggled),
                                       !.ran = RanAfter("gamepad_input", Scheduled)]
    /\ stage' = StageAfter("gamepad_input", Scheduled)
    /\ UNCHANGED << animation_players, animationRan, legacy, probe, airborne_request,
                    calls, mode, renet, client_state, keys, entities, movement_state,
                    velocity, yaw, movementRan, folded >>

\* `let sensitivity = 0.125`, in thousandths
Sensitivity == 125

\* `for ev in mouse_reader.read() { delta += ev.delta; }`, the x component
RECURSIVE SumDx(_)
SumDx(events) ==
    IF events = <<>> THEN 0 ELSE events[1].dx + SumDx(Tail(events))

\* fn mouse_input.  Deltas: the delta.x of the MouseMotion events that may
\* arrive in a frame (at most one event a frame); Toggles: whether the right
\* button may change state in this frame.  An event is kept with `held`,
\* whether the button was pressed in the frame it arrived in.  An event stays
\* in Messages<MouseMotion> for the frame it arrived in and the next one, so
\* what the early return on just_released leaves unread is still there for
\* the next frame's read().
MouseInput(Deltas, Toggles, Scheduled) ==
    /\ stage = "Input"
    /\ "mouse_input" \in Scheduled \ input.ran
    /\ \E toggled \in Toggles, dxs \in SeqsUpTo(Deltas, 1) :
         LET just_released == toggled /\ input.rmb
             pressed       == (input.rmb # toggled)
             arrived       == [i \in 1..Len(dxs) |-> [dx |-> dxs[i], held |-> pressed]]
             unread        == input.motion \o arrived
             delta_x       == SumDx(unread)
             ran           == RanAfter("mouse_input", Scheduled)
         IN  IF just_released
             THEN /\ Write(<<SetRotate(0)>>)
                  /\ input' = [input EXCEPT !.rmb = pressed, !.motion = arrived,
                                            !.summed = <<>>, !.ran = ran]
             ELSE IF ~pressed
             THEN /\ Write(<<>>)
                  /\ input' = [input EXCEPT !.rmb = pressed, !.motion = <<>>,
                                            !.summed = <<>>, !.ran = ran]
             ELSE /\ Write(   Opt(delta_x = 0, SetRotate(0))
                           \o <<SetRotate(DivT((-delta_x) * Sensitivity, 1000))>>)
                  /\ input' = [input EXCEPT !.rmb = pressed, !.motion = <<>>,
                                            !.summed = unread, !.ran = ran]
    /\ stage' = StageAfter("mouse_input", Scheduled)
    /\ UNCHANGED << animation_players, animationRan, legacy, probe, airborne_request,
                    calls, mode, renet, client_state, keys, entities, movement_state,
                    velocity, yaw, movementRan, folded >>

(***************************************************************************)
(* CharacterControllerSet::Grounded                                        *)
(***************************************************************************)
\* A ray-cast result: cast_ray_and_get_normal(..) is Some (hit) with the angle
\* between the normal and Vec3::Y in degrees, or None.
Ray(h, a) == [hit |-> h, angle |-> a]

\* The probe with `<` in place of `<=`.
ProbeGrounded_Strict(ray, max_slope_angle) ==
    ray.hit /\ \A a \in max_slope_angle : Abs(ray.angle) < a

\* `.is_some_and(|(_, i)| match max_slope_angle { Some(a) => angle.abs() <= a, None => true })`
\* Option<&MaxSlopeAngle> is the empty set (None) or a singleton (Some).
ProbeGrounded(ray, max_slope_angle) ==
    ray.hit /\ \A a \in max_slope_angle : Abs(ray.angle) <= a

\* update_grounded that takes a missing physics context for a missing floor.
update_grounded_airborne(ctx_ok, ms, ray) ==
    [ms EXCEPT !.grounded = ctx_ok /\ ProbeGrounded(ray, {MaxSlopeAngleDeg})]

\* The body of update_grounded for one controller (every controller carries
\* MaxSlopeAngle): `let Ok(ctx) = rapier_context.single() else { return; }`,
\* then `movement_state.grounded = grounded`.
update_grounded(ctx_ok, ms, ray) ==
    IF ~ctx_ok THEN ms
    ELSE [ms EXCEPT !.grounded = ProbeGrounded(ray, {MaxSlopeAngleDeg})]

\* fn update_grounded.  Ctx: the possible outcomes of rapier_context.single()
\* (TRUE is Ok); Rays: the possible results of the cast.
UpdateGrounded(Ctx, Rays) ==
    /\ stage = "Grounded"
    /\ \E ok \in Ctx, rays \in [entities -> Rays] :
         /\ probe' = IF ~ok THEN [FailedProbe EXCEPT !.retry = probe.retry]
                      ELSE [ran |-> TRUE, ok |-> TRUE, rays |-> rays,
                            before |-> [e \in entities |-> movement_state[e].grounded],
                            retry |-> probe.retry]
         /\ movement_state' =
              [e \in entities |-> update_grounded(ok, movement_state[e], rays[e])]
    /\ stage' = "Movement"
    /\ UNCHANGED << animation_players, animationRan, legacy, input, airborne_request,
                    calls, mode, renet, client_state, keys, messages, sent, entities,
                    velocity, yaw, movementRan, folded >>

(***************************************************************************)
(* CharacterControllerSet::Movement                                        *)
(***************************************************************************)
\* The controller the query yields first.
FirstEntity == CHOOSE e \in entities : \A f \in entities : e <= f

\* What movement_reader.read() yields inside the iteration of controller e:
\* the reader is drained by the first controller iterated.
ReadBy(e) == IF e = FirstEntity THEN messages ELSE <<>>

\* Whether the latest SetJump folded for controller e, this frame's included,
\* is a SetJump(true) folded while e was airborne.
AirborneRequest(e) ==
    LET jumps == SelectSeq(ReadBy(e), LAMBDA a : a.kind = "SetJump")
    IN  IF jumps = <<>> THEN e \in airborne_request
        ELSE jumps[Len(jumps)].flag /\ ~movement_state[e].grounded

\* fn movement, when run_if(has_server_authority) lets it run.
Movement ==
    /\ stage = "Movement"
    /\ has_server_authority(client_state)
    /\ movement_state' =
         [e \in entities |->
            ControllerStep(movement_state[e], velocity[e], yaw[e], ReadBy(e)).ms]
    /\ velocity' =
         [e \in entities |->
            ControllerStep(movement_state[e], velocity[e], yaw[e], ReadBy(e)).vel]
    /\ messages' = IF entities = {} THEN messages ELSE <<>>
    /\ folded' = IF entities = {} THEN <<>> ELSE messages
    /\ movementRan' = TRUE
    /\ airborne_request' = {e \in entities : AirborneRequest(e)}
    /\ stage' = "PostUpdate"
    /\ UNCHANGED << animation_players, animationRan, legacy, probe, input, calls, mode,
                    renet, client_state, keys, sent, entities, yaw >>

\* The frame of a process on which run_if(has_server_authority) is false.
MovementSkipped ==
    /\ stage = "Movement"
    /\ ~has_server_authority(client_state)
    /\ stage' = "PostUpdate"
    /\ UNCHANGED << animation_players, animationRan, legacy, probe, input,
                    airborne_request, calls, mode, renet,
                    client_state, keys, messages, sent, entities, movement_state,
                    velocity, yaw, movementRan, folded >>

(***************************************************************************)
(* PostUpdate: the physics solver, a black box that integrates the         *)
(* velocity command.  Vys: the vertical velocities it may leave (gravity,  *)
(* landing); Turns: the quarter turns a non-zero angvel.y may produce.     *)
(***************************************************************************)
Sign(a) == IF a > 0 THEN 1 ELSE IF a < 0 THEN -1 ELSE 0

PostUpdate(Vys, Turns) ==
    /\ stage = "PostUpdate"
    /\ \E vy \in [entities -> Vys \cup {velocity[e].linvel.y : e \in entities}],
          t \in [entities -> Turns] :
         /\ \A e \in entities : vy[e] \in Vys \/ vy[e] = velocity[e].linvel.y
         /\ velocity' = [e \in entities |-> [velocity[e] EXCEPT !.linvel.y = vy[e]]]
         /\ yaw' = [e \in entities |->
                      (yaw[e] + 4 + Sign(velocity[e].angvel_y) * t[e]) % 4]
    /\ stage' = "PreUpdate"
    /\ UNCHANGED << animation_players, animationRan, legacy, probe, input,
                    airborne_request, calls, mode, renet,
                    client_state, keys, messages, sent, entities, movement_state,
                    movementRan, folded >>

(***************************************************************************)
(* crates/presentation/src/animation.rs: the state-based locomotion        *)
(* classifier.  Its two systems are in Update without an ordering against  *)
(* the controller's sets, so each may run at any point of the frame's      *)
(* Update; update_animation runs once per frame.                           *)
(***************************************************************************)
\* enum CharacterAnimation
CharacterAnimation == {"Idle", "Walk", "Run", "Fall"}

\* The cast with the discriminants of Walk and Run exchanged.
AnimationIndex_RunBeforeWalk(c) ==
    CASE c = "Idle" -> 0
      [] c = "Walk" -> 2
      [] c = "Run"  -> 1
      [] c = "Fall" -> 3

\* `current_animation.0 as usize`: the position in Animations::indices
AnimationIndex(c) ==
    CASE c = "Idle" -> 0
      [] c = "Walk" -> 1
      [] c = "Run"  -> 2
      [] c = "Fall" -> 3

\* Duration::from_millis(250)
BlendMillis == 250

\* `let next_animation = if !grounded { Fall } else if !is_moving() { Idle }
\*  else if is_running() { Run } else { Walk }`
NextAnimation(ms) ==
    IF ~ms.grounded THEN "Fall"
    ELSE IF ~is_moving(ms) THEN "Idle"
    ELSE IF is_running(ms) THEN "Run"
    ELSE "Walk"

\* update_animation without the early `continue`.
ShouldPlay_Always(current, next) == TRUE

\* `if current_animation.0 == next_animation { continue; }`
ShouldPlay(current, next) == current # next

\* What play_animation_when_ready leaves on a new AnimationPlayer:
\* indices[0] playing with Duration::ZERO and .repeat(), CurrentAnimation(Idle).
NewAnimationPlayer ==
    [current |-> "Idle", clip |-> 0, blend |-> 0, repeat |-> TRUE, played |-> FALSE,
     previous |-> "Idle"]

\* The loop body that starts the clip without recording its category.
AnimationStep_KeepsCategory(ap, ms) ==
    LET next == NextAnimation(ms)
    IN  IF ShouldPlay(ap.current, next)
        THEN [current |-> ap.current, clip |-> AnimationIndex(next), blend |-> BlendMillis,
              repeat |-> TRUE, played |-> TRUE, previous |-> ap.current]
        ELSE [ap EXCEPT !.played = FALSE, !.previous = ap.current]

\* The body of update_animation's loop for the player ap of a controller with
\* movement state ms.
AnimationStep(ap, ms) ==
    LET next == NextAnimation(ms)
    IN  IF ShouldPlay(ap.current, next)
        THEN [current |-> next, clip |-> AnimationIndex(next), blend |-> BlendMillis,
              repeat |-> TRUE, played |-> TRUE, previous |-> ap.current]
        ELSE [ap EXCEPT !.played = FALSE, !.previous = ap.current]

\* fn find_movement_state for the player of controller e: Some(state) as a
\* singleton, None as the empty set.  The walk up the ChildOf chain ends at the
\* controller the scene was spawned under, if that entity still exists.
find_movement_state(e) == IF e \in entities THEN {movement_state[e]} ELSE {}

\* `let Some(movement_state) = find_movement_state(..) else { continue; }`,
\* then the rest of the loop body.
AnimationUpdate(ap, found) ==
    IF found = {} THEN [ap EXCEPT !.played = FALSE, !.previous = ap.current]
    ELSE AnimationStep(ap, CHOOSE ms \in found : TRUE)

\* The stages of the frame that lie in the Update schedule.
UpdateStages == {"Input", "Grounded", "Movement", "PostUpdate"}

\* The scene of controller e has spawned its AnimationPlayer and
\* play_animation_when_ready has handled it.
PlayAnimationWhenReady ==
    /\ stage \in UpdateStages
    /\ \E e \in entities \ DOMAIN animation_players :
         animation_players' =
            [f \in (DOMAIN animation_players) \cup {e} |->
               IF f = e THEN NewAnimationPlayer ELSE animation_players[f]]
    /\ UNCHANGED << animationRan, legacy, probe, input, airborne_request, calls, mode,
                    renet, client_state, stage, keys, messages, sent, entities,
                    movement_state, velocity, yaw, movementRan, folded >>

\* fn update_animation
UpdateAnimation ==
    /\ stage \in UpdateStages
    /\ ~animationRan
    /\ animation_players' =
         [e \in DOMAIN animation_players |->
            AnimationUpdate(animation_players[e], find_movement_state(e))]
    /\ animationRan' = TRUE
    /\ UNCHANGED << legacy, probe, input, airborne_request, calls, mode, renet,
                    client_state, stage, keys, messages, sent, entities, movement_state,
                    velocity, yaw, movementRan, folded >>

\* The end of a frame in which every system of Update has run.
EndOfUpdate(Vys, Turns) == animationRan /\ PostUpdate(Vys, Turns)

(***************************************************************************)
(* The velocity-based variant: src/src/controller.rs (the Grounded marker) *)
(* and src/src/presentation/animation.rs.  One controller, one animation   *)
(* player; squared speeds are in millionths.                               *)
(***************************************************************************)
\* `velocity_squared <= 2.0`
IdleSpeedSq == 2000000

\* `velocity_squared >= 24.0`
RunSpeedSq == 24000000

\* The body of update_animation's inner loop: current is the Local<usize>,
\* played the clips handed to transition.play so far.
LegacyAnimationStep(current, played, linvel, is_grounded) ==
    LET velocity_squared == LengthSq(linvel)
        Play(n) == [current_animation |-> n, played |-> Append(played, n)]
        Keep    == [current_animation |-> current, played |-> played]
    IN  IF is_grounded
        THEN IF velocity_squared <= IdleSpeedSq /\ current # 0 THEN Play(0)
             ELSE IF /\ velocity_squared > IdleSpeedSq
                     /\ velocity_squared < RunSpeedSq
                     /\ current # 1 THEN Play(1)
             ELSE IF velocity_squared >= RunSpeedSq /\ current # 2 THEN Play(2)
             ELSE Keep
        ELSE IF current # 3 THEN Play(3) ELSE Keep

\* `for (mut player, mut transition) in &mut animation_players`, for one
\* controller c: players p..n in turn, all on the one Local<usize>.
RECURSIVE LegacyPlayers(_, _, _, _, _)
LegacyPlayers(current, played, p, n, c) ==
    IF p > n THEN [current_animation |-> current, played |-> played]
    ELSE LET r == LegacyAnimationStep(current, played[p], c.linvel, c.grounded)
         IN  LegacyPlayers(r.current_animation, [played EXCEPT ![p] = r.played],
                           p + 1, n, c)

\* `for (entity, velocity) in &mut controllers`: every controller in turn,
\* each with every animation player.
RECURSIVE LegacyControllers(_, _, _, _)
LegacyControllers(current, played, controllers, n) ==
    IF controllers = <<>> THEN [current_animation |-> current, played |-> played]
    ELSE LET r == LegacyPlayers(current, played, 1, n, Head(controllers))
         IN  LegacyControllers(r.current_animation, r.played, Tail(controllers), n)

\* The controllers of the variant's world, in spawn order.
LegacyWorld ==
    << [grounded |-> legacy.grounded, linvel |-> legacy.linvel] >>
       \o (IF legacy.second = {} THEN <<>> ELSE << CHOOSE c \in legacy.second : TRUE >>)

LegacyUnchanged ==
    UNCHANGED << animation_players, animationRan, probe, input,
                    airborne_request, calls, mode, renet,
                 client_state, stage, keys, messages, sent, entities, movement_state,
                 velocity, yaw, movementRan, folded >>

\* fn update_grounded of the variant: the same probe, the result kept as the
\* presence of the Grounded marker.
LegacyUpdateGrounded(Rays) ==
    /\ stage = "Legacy"
    /\ \E ray \in Rays :
         legacy' = [legacy EXCEPT !.grounded = ProbeGrounded(ray, {MaxSlopeAngleDeg}),
                                  !.played = NoPlays(legacy.players), !.ran = FALSE]
    /\ LegacyUnchanged

\* The Velocity the controller and the physics step of the variant leave.
LegacyVelocity(Vels) ==
    /\ stage = "Legacy"
    /\ \E v \in Vels :
         legacy' = [legacy EXCEPT !.linvel = v, !.played = NoPlays(legacy.players),
                                  !.ran = FALSE]
    /\ LegacyUnchanged

\* fn update_animation of the variant
LegacyUpdateAnimation ==
    /\ stage = "Legacy"
    /\ LET r == LegacyControllers(legacy.current_animation, NoPlays(legacy.players),
                                  LegacyWorld, legacy.players)
       IN  legacy' = [legacy EXCEPT
                        !.current_animation = r.current_animation,
                        !.played = r.played,
                        !.previous = legacy.clip,
                        !.clip = [p \in 1..legacy.players |->
                                    IF r.played[p] = <<>> THEN legacy.clip[p]
                                    ELSE r.played[p][Len(r.played[p])]],
                        !.ran = TRUE]
    /\ LegacyUnchanged

\* The state of the second character of the variant's world, when there is
\* one: its Grounded marker and its Velocity.
LegacySecond(Rays, Vels) ==
    /\ stage = "Legacy"
    /\ legacy.second # {}
    /\ \E ray \in Rays, v \in Vels :
         legacy' = [legacy EXCEPT
                      !.second = {[grounded |-> ProbeGrounded(ray, {MaxSlopeAngleDeg}),
                                   linvel |-> v]},
                      !.played = NoPlays(legacy.players), !.ran = FALSE]
    /\ LegacyUnchanged

(***************************************************************************)
(* The controller of the velocity-based variant (src/src/controller.rs):   *)
(* keyboard_input writes MovementAction messages, update_grounded sets the *)
(* marker, movement turns the messages of the tick into a velocity,        *)
(* apply_movement_damping scales it, and the physics step follows.         *)
(***************************************************************************)
\* MovementBundle::default damping 0.9; the jump impulse and the acceleration
\* are those of with_movement in main.
LegacyDampingFactor == 900

Vec2(a, b) == [x |-> a, y |-> b]

\* Vec2::clamp_length_max(1.0)
clamp_length_max2(d) ==
    LET c == clamp_length_max(Vec3(d.x, d.y, 0)) IN Vec2(c.x, c.y)

\* enum MovementAction { Move(Vec2), Walk(Vec2), Rotate(f32), Jump }
LegacyMove(d) == [kind |-> "Move", direction |-> d]

LegacyWalk(d) == [kind |-> "Walk", direction |-> d]

LegacyRotate(r) == [kind |-> "Rotate", direction |-> r]

LegacyJump == [kind |-> "Jump"]

\* keyboard_input: the messages it writes with the keys in `pressed` held, of
\* which those in `just_pressed` went down in this tick.
legacy_keyboard_input(pressed, just_pressed) ==
    LET up    == {"KeyW", "ArrowUp"} \cap pressed # {}
        down  == {"KeyS", "ArrowDown"} \cap pressed # {}
        left  == "KeyQ" \in pressed
        right == "KeyE" \in pressed
        shift == "ShiftLeft" \in pressed
        horizontal == (IF right THEN 1 ELSE 0) - (IF left THEN 1 ELSE 0)
        vertical   == (IF up THEN 1 ELSE 0) - (IF down THEN 1 ELSE 0)
        direction  == clamp_length_max2(Vec2(horizontal * 1000, vertical * 1000))
        rotate_left  == {"KeyA", "ArrowLeft"} \cap pressed # {}
        rotate_right == {"KeyD", "ArrowRight"} \cap pressed # {}
    IN  (IF direction # Vec2(0, 0)
         THEN IF shift THEN << LegacyWalk(direction) >> ELSE << LegacyMove(direction) >>
         ELSE <<>>)
        \o (IF rotate_left /\ ~rotate_right THEN << LegacyRotate(1000) >>
            ELSE IF rotate_right /\ ~rotate_left THEN << LegacyRotate(-1000) >>
            ELSE <<>>)
        \o (IF "Space" \in just_pressed THEN << LegacyJump >> ELSE <<>>)

\* movement, Move and Walk arms: the local direction rotated by the facing,
\* flattened and normalized.
LegacyWorldDirection(facing, direction) ==
    LET local == Vec3(-direction.x, 0, direction.y)
        world == Rotate(facing, local)
    IN  normalize_or_zero([world EXCEPT !.y = 0])

\* The Jump arm with the test of data.grounded left out.
LegacyArm_JumpMidAir(data, event) ==
    CASE event.kind \in {"Move", "Walk"} ->
           LET world == LegacyWorldDirection(data.facing, event.direction)
               speed == IF event.kind = "Move" THEN 150 ELSE 50
           IN  [data EXCEPT !.linvel.x = DivT(world.x * Acceleration * speed, 1000),
                            !.linvel.z = DivT(world.z * Acceleration * speed, 1000)]
      [] event.kind = "Rotate" ->
           [data EXCEPT !.angvel_y = event.direction * 4]
      [] event.kind = "Jump" ->
           [data EXCEPT !.linvel.y = JumpImpulseValue]

\* movement: one arm of `match event` on the data of one controller.
LegacyArm(data, event) ==
    CASE event.kind = "Move" ->
           LET world == LegacyWorldDirection(data.facing, event.direction)
           IN  [data EXCEPT !.linvel.x = DivT(world.x * Acceleration * 150, 1000),
                            !.linvel.z = DivT(world.z * Acceleration * 150, 1000)]
      [] event.kind = "Walk" ->
           LET world == LegacyWorldDirection(data.facing, event.direction)
           IN  [data EXCEPT !.linvel.x = DivT(DivT(world.x * Acceleration * 100, 1000), 2),
                            !.linvel.z = DivT(DivT(world.z * Acceleration * 100, 1000), 2)]
      [] event.kind = "Rotate" ->
           [data EXCEPT !.angvel_y = event.direction * 4]
      [] event.kind = "Jump" ->
           IF data.grounded THEN [data EXCEPT !.linvel.y = JumpImpulseValue] ELSE data

\* `for event in movement_reader.read()`
RECURSIVE LegacyRead(_, _)
LegacyRead(data, events) ==
    IF events = <<>> THEN data
    ELSE LegacyRead(LegacyArm(data, Head(events)), Tail(events))

\* movement on the one controller: the reset of linvel.x, linvel.z and
\* angvel.y, then every unread message.
LegacyMovementStep(data, events) ==
    LegacyRead([data EXCEPT !.linvel.x = 0, !.linvel.z = 0, !.angvel_y = 0], events)

\* What the scheduled systems of the variant leave alone.
LegacyRest ==
    UNCHANGED << animation_players, animationRan, probe, input, airborne_request,
                 calls, mode, renet, client_state, sent, entities, movement_state,
                 velocity, yaw, movementRan, folded >>

\* CharacterControllerSet::Input: keyboard_input with the keys of K.
LegacyKeyboardInput(K) ==
    /\ stage = "LegacyInput"
    /\ \E toggled \in SUBSET K :
         LET pressed == (keys \ toggled) \cup (toggled \ keys)
         IN  /\ keys' = pressed
             /\ messages' = messages \o legacy_keyboard_input(pressed, pressed \ keys)
    /\ stage' = "LegacyGrounded"
    /\ UNCHANGED legacy
    /\ LegacyRest

\* CharacterControllerSet::Grounded: update_grounded.
LegacyGrounded(Rays) ==
    /\ stage = "LegacyGrounded"
    /\ \E ray \in Rays :
         legacy' = [legacy EXCEPT !.grounded = ProbeGrounded(ray, {MaxSlopeAngleDeg})]
    /\ stage' = "LegacyMovement"
    /\ UNCHANGED << keys, messages >>
    /\ LegacyRest

\* CharacterControllerSet::Movement: movement reads every message written
\* since its last run.
LegacyMovement ==
    /\ stage = "LegacyMovement"
    /\ LET data == LegacyMovementStep(
                       [linvel |-> legacy.linvel, angvel_y |-> legacy.angvel_y,
                        grounded |-> legacy.grounded, facing |-> legacy.facing],
                       messages)
       IN  legacy' = [legacy EXCEPT
                        !.linvel = data.linvel,
                        !.angvel_y = data.angvel_y,
                        !.read = messages,
                        !.missed = legacy.missed
                                   \/ (~legacy.grounded
                                       /\ \E i \in 1..Len(messages) :
                                            messages[i] = LegacyJump)]
    /\ messages' = <<>>
    /\ stage' = "LegacyDamping"
    /\ UNCHANGED keys
    /\ LegacyRest

\* CharacterControllerSet::Damping: apply_movement_damping.
LegacyDamping ==
    /\ stage = "LegacyDamping"
    /\ legacy' = [legacy EXCEPT
                    !.linvel.x = DivT(legacy.linvel.x * LegacyDampingFactor, 1000),
                    !.linvel.z = DivT(legacy.linvel.z * LegacyDampingFactor, 1000),
                    !.angvel_y = DivT(legacy.angvel_y * LegacyDampingFactor, 1000)]
    /\ stage' = "LegacyPhysics"
    /\ UNCHANGED << keys, messages >>
    /\ LegacyRest

\* The physics step between two updates: gravity and contacts set linvel.y to
\* one of Vys or leave it, the yaw velocity turns the character by one of
\* Turns quarter turns.
LegacyPhysics(Vys, Turns) ==
    /\ stage = "LegacyPhysics"
    /\ \E vy \in Vys \cup {legacy.linvel.y}, t \in Turns :
         legacy' = [legacy EXCEPT
                      !.linvel.y = vy,
                      !.facing = (legacy.facing + 4 + Sign(legacy.angvel_y) * t) % 4]
    /\ stage' = "LegacyInput"
    /\ UNCHANGED << keys, messages >>
    /\ LegacyRest

(***************************************************************************)
(* Specifications.  Each fixes the environment of the process: the keys    *)
(* the player uses, the actions a remote peer sends, the outcomes of the   *)
(* ground probe and of the physics step.                                   *)
(***************************************************************************)
ProbeRays == {Ray(FALSE, 0), Ray(TRUE, 0), Ray(TRUE, MaxSlopeAngleDeg), Ray(TRUE, 45)}

FallVys == {0, -2000}

\* A process in any NetworkMode, a player using W and Space, a remote peer
\* that jumps and walks forward.
Next ==
    \/ PreUpdate({SetJump(TRUE), SetJump(FALSE), AddMove(Vec3(0, 0, 1000))})
    \/ KeyboardInput({"KeyW", "Space"})
    \/ UpdateGrounded(BOOLEAN, ProbeRays)
    \/ Movement
    \/ MovementSkipped
    \/ PostUpdate(FallVys, {0})

Spec == Init /\ [][Next]_vars

\* The dedicated server: the process that owns the controller.
InitServer == Init /\ mode = "Server"

FlatGround == {Ray(TRUE, 0)}

MoveKeys == {"KeyW", "ArrowUp", "KeyS", "ArrowDown", "KeyQ", "KeyE"}

\* The server's own player on the six movement keys, no remote peer.
NextKeys ==
    \/ PreUpdate({})
    \/ KeyboardInput(MoveKeys)
    \/ UpdateGrounded({TRUE}, FlatGround)
    \/ Movement
    \/ PostUpdate({0}, {0})

SpecKeys == InitServer /\ [][NextKeys]_vars

\* Direction payloads a peer sends: a vertical and an oversized AddMove, a
\* backward step, a half-tilted stick.
MovePayloads ==
    { AddMove(Vec3(0, 1000, 0)), AddMove(Vec3(3000, 0, 0)), AddMove(Vec3(0, 0, -1000)),
      SetMove(Vec3(500, 0, 500)) }

\* The server's player on W and Q, and a remote peer sending direction actions.
NextMove ==
    \/ PreUpdate(MovePayloads)
    \/ KeyboardInput({"KeyW", "KeyQ"})
    \/ UpdateGrounded({TRUE}, FlatGround)
    \/ Movement
    \/ PostUpdate({0}, {0})

SpecMove == InitServer /\ [][NextMove]_vars

\* What a remote peer may put in the payload of the scalar and rotation
\* actions, and of SetMove: any f32, here a few values in and out of range.
RemotePayloads ==
    { SetMove(Vec3(3000, 0, 0)), SetSpeed(1000), SetRotate(0), SetRotate(500),
      RotateLeft(TRUE), RotateLeft(FALSE), RotateRight(TRUE), RotateRight(FALSE) }

\* The server with an idle local player and a remote peer.
NextRemote ==
    \/ PreUpdate(RemotePayloads)
    \/ KeyboardInput({})
    \/ UpdateGrounded({TRUE}, FlatGround)
    \/ Movement
    \/ PostUpdate({0}, {0, 1})

SpecRemote == InitServer /\ [][NextRemote]_vars

\* A peer that walks forward, backward and sideways, toggles the walk preset
\* and turns.
FacingPayloads ==
    { AddMove(Vec3(0, 0, 1000)), AddMove(Vec3(0, 0, -1000)), AddMove(Vec3(1000, 0, 0)),
      SetSpeed(WalkSpeed), SetSpeed(RunSpeed), RotateLeft(TRUE), RotateLeft(FALSE) }

\* The server with an idle local player and a remote peer that turns the
\* character: the physics step may turn it by a quarter turn per frame.
NextFacing ==
    \/ PreUpdate(FacingPayloads)
    \/ KeyboardInput({})
    \/ UpdateGrounded({TRUE}, FlatGround)
    \/ Movement
    \/ PostUpdate({0}, {0, 1})

SpecFacing == InitServer /\ [][NextFacing]_vars

\* A peer that walks forward and backward, sends a vertical direction and
\* toggles the walk preset.
AnimationPayloads ==
    { AddMove(Vec3(0, 0, 1000)), AddMove(Vec3(0, 0, -1000)), AddMove(Vec3(0, 1000, 0)),
      SetSpeed(WalkSpeed), SetSpeed(RunSpeed) }

GroundOrAir == {Ray(TRUE, 0), Ray(FALSE, 0)}

\* The server with the animation systems, a remote peer, and a character
\* that may leave the ground.
NextAnimated ==
    \/ PreUpdate(AnimationPayloads)
    \/ KeyboardInput({})
    \/ UpdateGrounded({TRUE}, GroundOrAir)
    \/ Movement
    \/ PlayAnimationWhenReady
    \/ UpdateAnimation
    \/ EndOfUpdate({0}, {0})

SpecAnimated == InitServer /\ [][NextAnimated]_vars

\* A client that walks forward and backward, jumps, and sets a zero speed.
JumpPayloads ==
    { AddMove(Vec3(0, 0, 1000)), AddMove(Vec3(0, 0, -1000)), SetJump(TRUE), SetJump(FALSE),
      SetSpeed(0) }

\* The server with an idle local player, a client, and a character that may
\* leave the ground.
NextJump ==
    \/ PreUpdate(JumpPayloads)
    \/ KeyboardInput({})
    \/ UpdateGrounded({TRUE}, GroundOrAir)
    \/ Movement
    \/ PostUpdate(FallVys, {0})

SpecJump == InitServer /\ [][NextJump]_vars

\* What keyboard_input writes on the release of W, A, D, Space and ShiftLeft.
ReleasePayloads ==
    { AddMove(Vec3(0, 0, -1000)), RotateLeft(FALSE), RotateRight(FALSE), SetJump(FALSE),
      SetSpeed(RunSpeed) }

\* The server with an idle local player and a client whose key releases
\* arrive although their presses never did.
NextRelease ==
    \/ PreUpdate(ReleasePayloads)
    \/ KeyboardInput({})
    \/ UpdateGrounded({TRUE}, GroundOrAir)
    \/ Movement
    \/ PostUpdate({0}, {0})

SpecRelease == InitServer /\ [][NextRelease]_vars

\* delta.x of a MouseMotion event: 8 and 16 pixels, which the sensitivity turns
\* into SetRotate(-1.0) and SetRotate(-2.0).
MouseDeltas == {8000, 16000}

\* The systems of the Input set that find their device on a machine with a
\* keyboard and a mouse.
LookSystems == {"keyboard_input", "mouse_input"}

\* The server with a local player who turns with the A key and with the mouse
\* while holding the right button.
NextMouse ==
    \/ PreUpdate({})
    \/ KeyboardInputAmong({"KeyA"}, LookSystems)
    \/ MouseInput(MouseDeltas, BOOLEAN, LookSystems)
    \/ UpdateGrounded({TRUE}, FlatGround)
    \/ Movement
    \/ PostUpdate({0}, {0})

SpecMouse == InitServer /\ [][NextMouse]_vars

\* (LeftStickX, LeftStickY) of the gamepad: centred, and pushed half way
\* along both axes.
PadSticks == { << 0, 0 >>, << 500, 500 >> }

\* The systems of the Input set that find their device on a machine with a
\* keyboard and a gamepad.
PadSystems == {"keyboard_input", "gamepad_input"}

\* The server with a local player who uses the W key and a gamepad.
NextPad ==
    \/ PreUpdate({})
    \/ KeyboardInputAmong({"KeyW"}, PadSystems)
    \/ GamepadInput(PadSticks, BOOLEAN, PadSystems)
    \/ UpdateGrounded({TRUE}, FlatGround)
    \/ Movement
    \/ PostUpdate({0}, {0})

SpecPad == InitServer /\ [][NextPad]_vars

\* FromClient<MovementAction>: the message with the id of the client that
\* sent it (`movement` matches on event.message only).
FromClient(c, a) ==
    [client_id |-> c, kind |-> a.kind, vec |-> a.vec, num |-> a.num, flag |-> a.flag]

\* Two connected clients.
Clients == {1, 2}

\* What the two clients send: each walks forward or jumps.
TwoClientPayloads ==
    { FromClient(c, a) : c \in Clients, a \in {AddMove(Vec3(0, 0, 1000)), SetJump(TRUE)} }

\* The server of simulation/src/lib.rs: spawn_server_entities spawns two
\* Players, each of which gets a controller.
InitTwoPlayers ==
    /\ mode = "Server"
    /\ renet = "none"
    /\ client_state = "Disconnected"
    /\ entities = {1, 2}
    /\ stage = "PreUpdate"
    /\ keys = {}
    /\ messages = <<>>
    /\ sent = <<>>
    /\ movement_state = [e \in entities |-> DefaultMovementState]
    /\ velocity = [e \in entities |-> DefaultVelocity]
    /\ yaw = [e \in entities |-> 0]
    /\ movementRan = FALSE
    /\ folded = <<>>
    /\ calls = NoCalls(ZERO)
    /\ probe = NoProbe
    /\ animation_players = <<>>
    /\ animationRan = FALSE
    /\ legacy = DefaultLegacy
    /\ input = NoInput
    /\ airborne_request = {}

NextTwoPlayers ==
    \/ PreUpdate(TwoClientPayloads)
    \/ KeyboardInput({})
    \/ UpdateGrounded({TRUE}, FlatGround)
    \/ Movement
    \/ PostUpdate({0}, {0})

SpecTwoPlayers == InitTwoPlayers /\ [][NextTwoPlayers]_vars

\* A payload of every MovementAction variant, and both values of SetJump.
FoldPayloads ==
    { AddMove(Vec3(0, 0, 1000)), SetMove(Vec3(500, 0, 500)), SetSpeed(WalkSpeed),
      RotateRight(TRUE), RotateLeft(TRUE), SetRotate(500), SetJump(TRUE),
      SetJump(FALSE) }

\* The server with an idle local player and a client sending every variant.
NextFold ==
    \/ PreUpdate(FoldPayloads)
    \/ KeyboardInput({})
    \/ UpdateGrounded({TRUE}, FlatGround)
    \/ Movement
    \/ PostUpdate({0}, {0})

SpecFold == InitServer /\ [][NextFold]_vars

\* The velocity-based variant has no network: one local world.
InitLegacy ==
    /\ init("Singleplayer")
    /\ stage = "Legacy"
    /\ keys = {}
    /\ messages = <<>>
    /\ sent = <<>>
    /\ movement_state = <<>>
    /\ velocity = <<>>
    /\ yaw = <<>>
    /\ movementRan = FALSE
    /\ folded = <<>>
    /\ calls = NoCalls(ZERO)
    /\ probe = NoProbe
    /\ animation_players = <<>>
    /\ animationRan = FALSE
    /\ legacy = DefaultLegacy
    /\ input = NoInput
    /\ airborne_request = {}

\* Velocities around the two thresholds (squared horizontal speed 0, 2, 10,
\* 26), at rest vertically, falling, and right after a jump.
LegacyVelocities ==
    { Vec3(a, b, c) : a \in {0, 1000, 3000, 5000}, b \in {0, -2000, JumpImpulseValue},
                      c \in {0, 1000} }

NextLegacy ==
    \/ LegacyUpdateGrounded(ProbeRays)
    \/ LegacyVelocity(LegacyVelocities)
    \/ LegacyUpdateAnimation

SpecLegacy == InitLegacy /\ [][NextLegacy]_vars

(***************************************************************************)
(* The velocity-based variant with two characters, each with the animation *)
(* player of its own model: player p animates character p.                 *)
(***************************************************************************)
InitLegacyCrowd ==
    /\ init("Singleplayer")
    /\ stage = "Legacy"
    /\ keys = {}
    /\ messages = <<>>
    /\ sent = <<>>
    /\ movement_state = <<>>
    /\ velocity = <<>>
    /\ yaw = <<>>
    /\ movementRan = FALSE
    /\ folded = <<>>
    /\ calls = NoCalls(ZERO)
    /\ probe = NoProbe
    /\ animation_players = <<>>
    /\ animationRan = FALSE
    /\ legacy = [DefaultLegacy EXCEPT
                   !.second = {[grounded |-> FALSE, linvel |-> ZERO]},
                   !.players = 2, !.played = NoPlays(2),
                   !.clip = FirstClips(2), !.previous = FirstClips(2)]
    /\ input = NoInput
    /\ airborne_request = {}

\* One velocity in each speed category: standing, walking, running.
CrowdVelocities == { Vec3(0, 0, 0), Vec3(3000, 0, 0), Vec3(5000, 0, 0) }

NextLegacyCrowd ==
    \/ LegacyUpdateGrounded(GroundOrAir)
    \/ LegacyVelocity(CrowdVelocities)
    \/ LegacySecond(GroundOrAir, CrowdVelocities)
    \/ LegacyUpdateAnimation

SpecLegacyCrowd == InitLegacyCrowd /\ [][NextLegacyCrowd]_vars

(***************************************************************************)
(* The controller of the velocity-based variant, tick after tick: the      *)
(* keyboard, the ground probe, movement, damping, physics.                 *)
(***************************************************************************)
InitLegacyMove ==
    /\ init("Singleplayer")
    /\ stage = "LegacyInput"
    /\ keys = {}
    /\ messages = <<>>
    /\ sent = <<>>
    /\ movement_state = <<>>
    /\ velocity = <<>>
    /\ yaw = <<>>
    /\ movementRan = FALSE
    /\ folded = <<>>
    /\ calls = NoCalls(ZERO)
    /\ probe = NoProbe
    /\ animation_players = <<>>
    /\ animationRan = FALSE
    /\ legacy = DefaultLegacy
    /\ input = NoInput
    /\ airborne_request = {}

\* Forward, the walk modifier, a turn and the jump key.
LegacyKeys == {"KeyW", "ShiftLeft", "KeyA", "Space"}

\* linvel.y at rest and falling.
LegacyVys == {0, -2000}

NextLegacyMove ==
    \/ LegacyKeyboardInput(LegacyKeys)
    \/ LegacyGrounded(GroundOrAir)
    \/ LegacyMovement
    \/ LegacyDamping
    \/ LegacyPhysics(LegacyVys, {0, 1})

SpecLegacyMove == InitLegacyMove /\ [][NextLegacyMove]_vars

(***************************************************************************)
(* CharacterMovementState::add_direction called directly on one state: any *)
(* caller may add a vector and later add its negation.                     *)
(***************************************************************************)
\* Most vectors added and not yet negated.
MaxPending == 2

DirComponents == {-1000, 0, 500}

DirVectors ==
    { Vec3(0, 0, 1000), Vec3(-1000, 0, 0), Vec3(500, 0, 0), Vec3(0, 250, -500) }

\* seq without its i-th element
RemoveAt(seq, i) == SubSeq(seq, 1, i - 1) \o SubSeq(seq, i + 1, Len(seq))

\* One state with any starting direction d.
InitDir ==
    /\ init("Server")
    /\ stage = "Call"
    /\ keys = {}
    /\ messages = <<>>
    /\ sent = <<>>
    /\ \E a \in DirComponents, b \in DirComponents, c \in DirComponents :
         /\ movement_state =
              [e \in entities |-> [DefaultMovementState EXCEPT !.direction = Vec3(a, b, c)]]
         /\ calls = NoCalls(Vec3(a, b, c))
    /\ velocity = [e \in entities |-> DefaultVelocity]
    /\ yaw = [e \in entities |-> 0]
    /\ movementRan = FALSE
    /\ folded = <<>>
    /\ probe = NoProbe
    /\ animation_players = <<>>
    /\ animationRan = FALSE
    /\ legacy = DefaultLegacy
    /\ input = NoInput
    /\ airborne_request = {}

\* The call add_direction(v) on the state of entity e, with the bookkeeping.
Call(e, v, pending2, isNegation) ==
    /\ movement_state' = [movement_state EXCEPT ![e] = add_direction(@, v)]
    /\ calls' = [calls EXCEPT
                   !.pending = pending2,
                   !.clamp_hit = @ \/ ~InUnitBox(VecAdd(movement_state[e].direction, v)),
                   !.negated = @ \/ isNegation]
    /\ UNCHANGED << animation_players, animationRan, legacy, probe, mode, renet,
                    client_state, stage, keys, messages, sent, entities,
                    velocity, yaw, movementRan, folded, input, airborne_request >>

\* add_direction(v)
AddDirectionCall ==
    /\ stage = "Call"
    /\ Len(calls.pending) < MaxPending
    /\ \E e \in entities, v \in DirVectors : Call(e, v, Append(calls.pending, v), FALSE)

\* add_direction(-v) for a v added before and not yet negated
NegatedDirectionCall ==
    /\ stage = "Call"
    /\ \E e \in entities, i \in 1..Len(calls.pending) :
         Call(e, VecNeg(calls.pending[i]), RemoveAt(calls.pending, i), TRUE)

NextDir == AddDirectionCall \/ NegatedDirectionCall

SpecDir == InitDir /\ [][NextDir]_vars

(***************************************************************************)
(* Properties.                                                             *)
(***************************************************************************)
\* The messages controller e read in the frame that just ran `movement`.
ReadInFrame(e) == IF e = FirstEntity THEN folded ELSE <<>>

\* `movement` has completed in the current frame.
AfterMovement == stage = "PostUpdate" /\ movementRan

\* C1: on a process configured as a network client the `movement` system
\* never runs, whatever the connection state: nothing is folded locally.
C1_ClientNeverRunsMovement ==
    mode = "Client" => (~movementRan /\ folded = <<>>)

\* C2: has_server_authority is true exactly in ClientState::Disconnected; a
\* process started as dedicated server or single-player never leaves
\* Disconnected, and `movement` runs in every one of its frames.
C2_AuthorityGate ==
    /\ has_server_authority("Disconnected")
    /\ ~has_server_authority("Connecting")
    /\ ~has_server_authority("Connected")
    /\ mode \in {"Server", "Singleplayer"} =>
         /\ client_state = "Disconnected"
         /\ stage = "PostUpdate" => movementRan

C2_Witness ==
    /\ mode = "Server"
    /\ AfterMovement
    /\ folded # <<>>
    /\ \E e \in entities : movement_state[e].direction.z = 1000

\* C3: in every `movement` step and for every controller, linvel.y becomes
\* the jump impulse if and only if grounded and jumping hold after the fold;
\* otherwise the step leaves linvel.y as it was.
C3_JumpImpulseIff ==
    [][ (stage = "Movement" /\ movementRan') =>
          \A e \in entities :
             IF movement_state'[e].grounded /\ movement_state'[e].jumping
             THEN velocity'[e].linvel.y = JumpImpulseValue
             ELSE velocity'[e].linvel.y = velocity[e].linvel.y ]_vars

\* an airborne controller with the jump flag set went through `movement` and
\* kept its falling speed
C3_Witness ==
    /\ AfterMovement
    /\ \E e \in entities :
         /\ ~movement_state[e].grounded
         /\ movement_state[e].jumping
         /\ velocity[e].linvel.y = -2000

\* The Euclidean length of v is at most 1.
InUnitLength(v) == LengthSq(v) <= 1000 * 1000

HasKind(msgs, k) == \E i \in 1..Len(msgs) : msgs[i].kind = k

\* The payload of the last SetRotate of msgs.
LastSetRotate(msgs) ==
    LET i == CHOOSE j \in 1..Len(msgs) :
                 /\ msgs[j].kind = "SetRotate"
                 /\ \A l \in (j + 1)..Len(msgs) : msgs[l].kind # "SetRotate"
    IN  msgs[i].num

\* C4: in every reachable state every component of direction is within
\* [-1, 1], whatever MovementActions the authority received.
C4_DirectionInUnitBox ==
    \A e \in entities : InUnitBox(movement_state[e].direction)

\* C5: in every reachable state speed is the run preset 0.15 or the walk
\* preset 0.05, whatever MovementActions the authority received.
C5_SpeedIsPreset ==
    \A e \in entities : movement_state[e].speed \in {RunSpeed, WalkSpeed}

\* C7: when all movement keys are released again and everything keyboard_input
\* emitted has been folded, direction is back at its value before the
\* sequence (zero: no key had been pressed).
C7_NoResidualDrift ==
    (stage = "PreUpdate" /\ keys = {}) =>
        \A e \in entities : movement_state[e].direction = ZERO

\* C8 as stated: after a `movement` fold the direction held in
\* CharacterMovementState is within [-1, 1] per axis and within unit length.
C8_StoredDirectionUnitLength ==
    AfterMovement =>
        \A e \in entities : /\ InUnitBox(movement_state[e].direction)
                            /\ InUnitLength(movement_state[e].direction)

\* C8 amended: after every single add_direction call of a fold each axis of
\* direction is within [-1, 1], and after the fold the direction the velocity
\* command is derived from (the clamp_length_max copy) is within unit length.
C8_CommandDirectionUnitLength ==
    [][ (stage = "Movement" /\ movementRan') =>
          \A e \in entities :
             /\ \A k \in 1..Len(ReadBy(e)) :
                   ReadBy(e)[k].kind = "AddMove" =>
                      InUnitBox(FoldMessages([ms |-> movement_state[e], set_rotation |-> 0],
                                             SubSeq(ReadBy(e), 1, k)).ms.direction)
             /\ InUnitLength(CommandDirection(movement_state'[e])) ]_vars

\* a fold with an AddMove left a stored direction longer than 1
C8_Witness ==
    /\ AfterMovement
    /\ HasKind(folded, "AddMove")
    /\ \E e \in entities : /\ InUnitBox(movement_state[e].direction)
                           /\ ~InUnitLength(movement_state[e].direction)

\* C9: after a `movement` fold that read no SetRotate, rotating is -1 when
\* only rotating_right is set, +1 when only rotating_left is set, else 0.
C9_ToggleRotation ==
    AfterMovement =>
        \A e \in entities :
           ~HasKind(ReadInFrame(e), "SetRotate") =>
              LET ms == movement_state[e]
              IN  /\ (ms.rotating_right /\ ~ms.rotating_left) => ms.rotating = -1000
                  /\ (ms.rotating_left /\ ~ms.rotating_right) => ms.rotating = 1000
                  /\ (ms.rotating_left = ms.rotating_right) => ms.rotating = 0

C9_Witness ==
    /\ AfterMovement
    /\ HasKind(folded, "RotateRight")
    /\ ~HasKind(folded, "SetRotate")
    /\ \E e \in entities : /\ movement_state[e].rotating_right
                           /\ ~movement_state[e].rotating_left
                           /\ movement_state[e].rotating = -1000

\* C10: after a `movement` fold that read a SetRotate(v), rotating equals the
\* last such v, for any v including 0, whatever the two toggles are.
C10_SetRotateOverrides ==
    AfterMovement =>
        \A e \in entities :
           HasKind(ReadInFrame(e), "SetRotate") =>
              movement_state[e].rotating = LastSetRotate(ReadInFrame(e))

HorizontalSpeedSq(vel) == vel.linvel.x * vel.linvel.x + vel.linvel.z * vel.linvel.z

\* C11 as stated: after a `movement` step, whatever the facing, a commanded
\* motion with a negative world-space z component moves at the walk preset:
\* the horizontal velocity is the world direction times acceleration times 0.05.
C11_WorldBackwardIsWalk ==
    AfterMovement =>
        \A e \in entities :
           LET world == WorldDirection(movement_state[e], yaw[e])
           IN  world.z < 0 =>
                  /\ velocity[e].linvel.x = DivT(world.x * Acceleration * WalkSpeed, 1000)
                  /\ velocity[e].linvel.z = DivT(world.z * Acceleration * WalkSpeed, 1000)

\* C11 amended: after a `movement` step, whatever the facing, a stored
\* direction with a negative local z component (backward relative to the
\* facing) moves at the walk preset regardless of the speed field, with the
\* same horizontal speed as the opposite direction at speed 0.05; any other
\* direction moves at the speed field.
C11_LocalBackwardIsWalk ==
    AfterMovement =>
        \A e \in entities :
           LET ms    == movement_state[e]
               world == WorldDirection(ms, yaw[e])
               used  == IF ms.direction.z < 0 THEN WalkSpeed ELSE ms.speed
               fwd   == [ms EXCEPT !.direction = VecNeg(ms.direction), !.speed = WalkSpeed]
           IN  /\ velocity[e].linvel.x = DivT(world.x * Acceleration * used, 1000)
               /\ velocity[e].linvel.z = DivT(world.z * Acceleration * used, 1000)
               /\ ms.direction.z < 0 =>
                     HorizontalSpeedSq(velocity[e]) =
                        HorizontalSpeedSq(ControllerStep(fwd, velocity[e], yaw[e], <<>>).vel)

\* a character turned half way round walks backward with speed = 0.15: its
\* world-space z is positive and it moves at the walk preset
C11_Witness ==
    /\ AfterMovement
    /\ \E e \in entities :
         /\ yaw[e] = 2
         /\ movement_state[e].direction = Vec3(0, 0, -1000)
         /\ movement_state[e].speed = RunSpeed
         /\ velocity[e].linvel.z = Acceleration * WalkSpeed

\* C12: every run of update_animation leaves on every animated entity the
\* category of its CharacterMovementState by the precedence: not grounded
\* gives Fall; grounded with no horizontal direction gives Idle; grounded and
\* moving gives Run when speed >= 0.15 and Walk when speed < 0.15.
C12_ClassifierPrecedence ==
    [][ (~animationRan /\ animationRan') =>
          \A e \in DOMAIN animation_players :
             LET ms == movement_state[e]
             IN  animation_players'[e].current =
                    IF ~ms.grounded THEN "Fall"
                    ELSE IF ms.direction.x = 0 /\ ms.direction.z = 0 THEN "Idle"
                    ELSE IF ms.speed >= RunSpeed THEN "Run"
                    ELSE "Walk" ]_vars

\* C13: in every run of update_animation a play call is issued for an entity
\* only when the classified category differs from the one applied to it
\* before; a run that classifies the category already applied issues no play
\* call and leaves the playing clip alone.
C13_PlayOnlyOnChange ==
    [][ (~animationRan /\ animationRan') =>
          \A e \in DOMAIN animation_players :
             LET before == animation_players[e]
                 after  == animation_players'[e]
                 next   == NextAnimation(movement_state[e])
             IN  /\ after.played => (next # before.current /\ after.clip = AnimationIndex(next))
                 /\ next = before.current =>
                       (~after.played /\ after.clip = before.clip
                        /\ after.blend = before.blend /\ after.current = before.current) ]_vars

\* update_animation ran on a character that was running and still is: no
\* play call, the Run clip keeps playing
C13_Witness ==
    /\ animationRan
    /\ \E e \in DOMAIN animation_players :
         /\ animation_players[e].previous = "Run"
         /\ animation_players[e].current = "Run"
         /\ animation_players[e].clip = 2
         /\ ~animation_players[e].played

\* C14: after update_animation of the velocity-based variant has run, the
\* category is Fall when not grounded, and when grounded it is decided by the
\* squared horizontal (x, z) speed alone: Idle up to 2, Walk strictly between
\* 2 and 24, Run from 24; the vertical velocity has no influence.
C14_HorizontalSpeedClassifier ==
    legacy.ran =>
        LET h2 == legacy.linvel.x * legacy.linvel.x + legacy.linvel.z * legacy.linvel.z
        IN  legacy.current_animation =
               IF ~legacy.grounded THEN 3
               ELSE IF h2 <= IdleSpeedSq THEN 0
               ELSE IF h2 < RunSpeedSq THEN 1
               ELSE 2

\* The two actions of the end-to-end scenario, in the order sent.
ForwardThenJump == << AddMove(Vec3(0, 0, 1000)), SetJump(TRUE) >>

\* C15 as stated: when `movement` folds AddMove(0,0,1) then SetJump(true) for
\* a grounded controller with identity facing, its velocity has linvel.z > 0
\* and linvel.y > 0 after the step.
C15_ForwardJump ==
    [][ (stage = "Movement" /\ movementRan' /\ messages = ForwardThenJump) =>
          \A e \in entities :
             (movement_state[e].grounded /\ yaw[e] = 0) =>
                (velocity'[e].linvel.z > 0 /\ velocity'[e].linvel.y > 0) ]_vars

\* C15 amended: the same, for a controller whose stored direction.z is above
\* -1 and whose speed is positive when the tick starts.
C15_ForwardJumpFromRest ==
    [][ (stage = "Movement" /\ movementRan' /\ messages = ForwardThenJump) =>
          \A e \in entities :
             ( /\ movement_state[e].grounded
               /\ yaw[e] = 0
               /\ movement_state[e].direction.z > -1000
               /\ movement_state[e].speed > 0 ) =>
                (velocity'[e].linvel.z > 0 /\ velocity'[e].linvel.y > 0) ]_vars

\* the scenario on a fresh controller: run speed forward and the jump impulse
C15_Witness ==
    /\ AfterMovement
    /\ folded = ForwardThenJump
    /\ \E e \in entities :
         /\ movement_state[e].grounded
         /\ yaw[e] = 0
         /\ movement_state[e].direction = Vec3(0, 0, 1000)
         /\ velocity[e].linvel.z = Acceleration * RunSpeed
         /\ velocity[e].linvel.y = JumpImpulseValue

\* C16: on a connected client no local system writes a field of the
\* CharacterMovementState of a replicated controller: every step of a frame
\* other than the replication step leaves every field as it was.
C16_ClientCopyReadOnly ==
    [][ (mode = "Client" /\ client_state = "Connected" /\ stage # "PreUpdate") =>
          \A e \in entities \cap entities' :
             movement_state'[e] = movement_state[e] ]_vars

\* C17: grounded is written only by update_grounded: a `movement` step leaves
\* grounded of every controller unchanged whatever it folds, any step that
\* changes grounded is the update_grounded step, and no MovementAction
\* variant sets grounded when folded.
C17_GroundedOnlyByProbe ==
    [][ /\ \A e \in entities \cap entities' :
             movement_state'[e].grounded # movement_state[e].grounded =>
                stage = "Grounded"
        /\ stage = "Movement" =>
              \A e \in entities : movement_state'[e].grounded = movement_state[e].grounded
        /\ \A a \in FoldPayloads \cup JumpPayloads, g \in BOOLEAN :
              LET ms == [DefaultMovementState EXCEPT !.grounded = g]
              IN  FoldAction([ms |-> ms, set_rotation |-> 0], a).ms.grounded = g ]_vars

\* an airborne controller folded SetJump(true) and is still airborne
C17_Witness ==
    /\ AfterMovement
    /\ HasKind(folded, "SetJump")
    /\ \E e \in entities : /\ ~movement_state[e].grounded
                           /\ movement_state[e].jumping

\* The position of the last action of kind k in msgs, 0 when there is none.
LastIndex(msgs, k) ==
    LET I == {i \in 1..Len(msgs) : msgs[i].kind = k}
    IN  IF I = {} THEN 0 ELSE CHOOSE i \in I : \A j \in I : j <= i

\* The direction after the actions i..Len(msgs) applied to d in list order:
\* SetMove overwrites, AddMove adds and clamps each axis.
RECURSIVE DirectionFrom(_, _, _)
DirectionFrom(d, msgs, i) ==
    IF i > Len(msgs) THEN d
    ELSE LET a == msgs[i]
             d2 == CASE a.kind = "SetMove" -> a.vec
                     [] a.kind = "AddMove" ->
                          VecClamp(VecAdd(d, a.vec), MIN_DIRECTION, MAX_DIRECTION)
                     [] OTHER -> d
         IN  DirectionFrom(d2, msgs, i + 1)

\* C19: a `movement` step leaves in speed, jumping, rotating_right and
\* rotating_left the payload of the last action of their kind in the list it
\* read (the old value if there is none), takes as explicit rotate value the
\* payload of the last SetRotate (none: 0.0), and leaves in direction the
\* result of applying SetMove as overwrite and AddMove as add-then-clamp in
\* list order.
C19_FoldIsReferenceFold ==
    [][ (stage = "Movement" /\ movementRan') =>
          \A e \in entities :
             LET msgs == ReadBy(e)
                 old  == movement_state[e]
                 new  == movement_state'[e]
                 Last(k) == msgs[LastIndex(msgs, k)]
                 Has(k)  == LastIndex(msgs, k) # 0
                 explicit == IF Has("SetRotate") THEN Last("SetRotate").num ELSE 0
             IN  /\ new.speed = IF Has("SetSpeed") THEN Last("SetSpeed").num ELSE old.speed
                 /\ new.jumping = IF Has("SetJump") THEN Last("SetJump").flag
                                                     ELSE old.jumping
                 /\ new.rotating_right = IF Has("RotateRight") THEN Last("RotateRight").flag
                                                                ELSE old.rotating_right
                 /\ new.rotating_left = IF Has("RotateLeft") THEN Last("RotateLeft").flag
                                                              ELSE old.rotating_left
                 /\ FoldMessages([ms |-> old, set_rotation |-> 0], msgs).set_rotation
                       = explicit
                 /\ explicit # 0 => new.rotating = explicit
                 /\ new.direction = DirectionFrom(old.direction, msgs, 1) ]_vars

\* a fold whose result depends on the order: SetMove then AddMove
C19_Witness ==
    /\ AfterMovement
    /\ folded = << SetMove(Vec3(500, 0, 500)), AddMove(Vec3(0, 0, 1000)) >>
    /\ \E e \in entities : movement_state[e].direction = Vec3(500, 0, 1000)

\* C18: after update_grounded ran with a physics context, grounded of every
\* controller is true if and only if its downward ray hit a surface and the
\* angle between the hit normal and world-up is at most MaxSlopeAngle; for an
\* entity without MaxSlopeAngle the probe is true if and only if the ray hit.
C18_GroundedIffProbe ==
    /\ (stage \in {"Movement", "PostUpdate"} /\ probe.ok) =>
          \A e \in entities :
             movement_state[e].grounded <=>
                (probe.rays[e].hit /\ probe.rays[e].angle <= MaxSlopeAngleDeg)
    /\ \A ray \in ProbeRays : ProbeGrounded(ray, {}) <=> ray.hit

\* the ray hit a slope steeper than MaxSlopeAngle: not grounded
C18_Witness ==
    /\ stage = "Movement"
    /\ probe.ok
    /\ \E e \in entities : /\ probe.rays[e] = Ray(TRUE, 45)
                           /\ ~movement_state[e].grounded

\* C20: every `movement` step of a server or single-player process folds each
\* action delivered in its tick exactly once and in arrival order, however
\* many controllers exist: the list it read is the list delivered, one
\* controller's state folded it, and nothing is left unread.
C20_EveryActionFoldedOnce ==
    [][ (stage = "Movement" /\ movementRan' /\ mode \in {"Server", "Singleplayer"}) =>
          /\ folded' = messages
          /\ messages' = <<>>
          /\ messages # <<>> =>
                \E e \in entities :
                   /\ ReadBy(e) = messages
                   /\ \A f \in entities \ {e} : ReadBy(f) = <<>> ]_vars

\* C21, as stated: a SetJump(true) folded while the controller is airborne is
\* dropped: as long as no further SetJump is folded, no later frame applies
\* the jump impulse, even when the controller is grounded again.
C21_AirborneRequestDropped ==
    [][ (stage = "Movement" /\ movementRan') =>
          \A e \in entities :
             (e \in airborne_request /\ ~HasKind(ReadBy(e), "SetJump")) =>
                velocity'[e].linvel.y = velocity[e].linvel.y ]_vars

\* C21, amended: a SetJump(true) folded while the controller is airborne
\* applies no impulse in that frame but stays latched in `jumping`: in every
\* later frame that folds no SetJump the flag is still set and the impulse is
\* applied iff the controller is grounded in that frame.
C21_AirborneRequestLatched ==
    [][ (stage = "Movement" /\ movementRan') =>
          \A e \in entities :
             /\ (e \in airborne_request' /\ HasKind(ReadBy(e), "SetJump")) =>
                   /\ movement_state'[e].jumping
                   /\ velocity'[e].linvel.y = velocity[e].linvel.y
             /\ (e \in airborne_request /\ ~HasKind(ReadBy(e), "SetJump")) =>
                   /\ movement_state'[e].jumping
                   /\ velocity'[e].linvel.y =
                        IF movement_state[e].grounded THEN JumpImpulseValue
                        ELSE velocity[e].linvel.y ]_vars

\* A request made in the air has fired on landing: the frame folded no
\* SetJump, found the controller grounded and applied the impulse.
C21_Witness ==
    /\ AfterMovement
    /\ \E e \in airborne_request :
         /\ ~HasKind(folded, "SetJump")
         /\ movement_state[e].grounded
         /\ velocity[e].linvel.y = JumpImpulseValue

\* C22: a release folded into a state on which the press was never applied
\* leaves the state unchanged, and folding the same release twice has the
\* effect of folding it once.  No press is ever sent under SpecRelease.
C22_ReleaseWithoutPressIsNoOp ==
    [][ (stage = "Movement" /\ movementRan') =>
          \A e \in entities :
             LET acc == [ms |-> movement_state[e], set_rotation |-> 0]
             IN  /\ movement_state'[e] = movement_state[e]
                 /\ \A r \in ReleasePayloads :
                      FoldMessages(acc, <<r, r>>) = FoldMessages(acc, <<r>>) ]_vars

\* C23: a MouseMotion event that arrived in a frame in which the right button
\* was not held, the frame of its release included, is never summed into a
\* SetRotate value.
C23_UnheldMotionDiscarded ==
    \A i \in 1..Len(input.summed) : input.summed[i].held

C25_FailedLookupSkipsFrame ==
    [][ stage = "Grounded" =>
          /\ probe'.ran
          /\ stage' = "Movement"
          /\ ~probe'.ok => movement_state' = movement_state
          /\ (probe.retry /\ probe'.ok) =>
                \A e \in entities :
                   movement_state'[e].grounded =
                      (/\ probe'.rays[e].hit
                       /\ Abs(probe'.rays[e].angle) <= MaxSlopeAngleDeg) ]_vars

\* The frame after one without a physics context: the probe ran again and
\* changed grounded.
C25_Witness ==
    /\ stage = "Movement"
    /\ probe.retry
    /\ probe.ok
    /\ \E e \in entities : movement_state[e].grounded # probe.before[e]

\* C26: in every reachable state `rotating` is within [-1, 1], SetRotate
\* values derived from mouse motion included.
C26_RotatingInUnitRange ==
    \A e \in entities :
       /\ movement_state[e].rotating >= -1000
       /\ movement_state[e].rotating <= 1000

\* C27: `jumping` changes only in a `movement` run that folds a SetJump; a
\* run that folds none keeps it, also when it applies the impulse, and every
\* run that ends with jumping set on a grounded controller applies the
\* impulse.
C27_JumpingChangesOnlyBySetJump ==
    [][ \A e \in entities \cap entities' :
          /\ movement_state'[e].jumping # movement_state[e].jumping =>
                /\ stage = "Movement"
                /\ movementRan'
                /\ HasKind(ReadBy(e), "SetJump")
          /\ (stage = "Movement" /\ movementRan' /\ movement_state'[e].jumping
                /\ movement_state[e].grounded) =>
                velocity'[e].linvel.y = JumpImpulseValue ]_vars

\* The impulse applied in a frame that folded no SetJump, with the flag still
\* set afterwards.
C27_Witness ==
    /\ AfterMovement
    /\ ~HasKind(folded, "SetJump")
    /\ \E e \in entities :
         /\ movement_state[e].jumping
         /\ movement_state[e].grounded
         /\ velocity[e].linvel.y = JumpImpulseValue

\* C28: after a frame in which both keyboard AddMove actions and the
\* gamepad's SetMove were emitted and folded, direction equals the stick
\* vector of that SetMove, in whichever order keyboard_input and
\* gamepad_input ran.
C28_GamepadOverwritesKeyboard ==
    (AfterMovement /\ HasKind(folded, "AddMove")) =>
       \A e \in entities, i \in 1..Len(folded) :
          folded[i].kind = "SetMove" => movement_state[e].direction = folded[i].vec

\* C29: an animation player starts with the category Idle and the Idle clip
\* (index 0) looping with zero blend time; every clip update_animation starts
\* afterwards loops, blends over 250 ms and has the index of the category
\* classified from the movement state: Idle 0, Walk 1, Run 2, Fall 3.
C29_ClipsStarted ==
    [][ \A e \in DOMAIN animation_players' :
          LET after == animation_players'[e]
              next  == NextAnimation(movement_state[e])
          IN  /\ e \notin DOMAIN animation_players =>
                    /\ after.current = "Idle"
                    /\ after.clip = 0
                    /\ after.blend = 0
                    /\ after.repeat
              /\ (e \in DOMAIN animation_players /\ ~animationRan /\ animationRan'
                    /\ after.played) =>
                    /\ after.current = next
                    /\ after.repeat
                    /\ after.blend = 250
                    /\ after.clip = CASE next = "Idle" -> 0
                                      [] next = "Walk" -> 1
                                      [] next = "Run"  -> 2
                                      [] next = "Fall" -> 3 ]_vars

\* update_animation has replaced the clip of a player by the Run clip.
C29_Witness ==
    \E e \in DOMAIN animation_players :
       /\ animation_players[e].played
       /\ animation_players[e].current = "Run"
       /\ animation_players[e].clip = 2
       /\ animation_players[e].blend = 250

\* C30: `movement` commands the horizontal velocity of the folded direction
\* with its y component set to zero, and changes linvel.y by the jump rule
\* only.
C30_VerticalIntentIgnored ==
    [][ (stage = "Movement" /\ movementRan') =>
          \A e \in entities :
             LET ms    == movement_state'[e]
                 flat  == [ms EXCEPT !.direction.y = 0]
                 world == WorldDirection(flat, yaw[e])
             IN  /\ velocity'[e].linvel.x = HorizontalVelocity(world.x, flat)
                 /\ velocity'[e].linvel.z = HorizontalVelocity(world.z, flat)
                 /\ velocity'[e].linvel.y =
                      IF ms.grounded /\ ms.jumping THEN JumpImpulseValue
                      ELSE velocity[e].linvel.y ]_vars

\* C31: after each `movement` run the horizontal velocity is the direction,
\* clamped to unit length and rotated by the facing, times the acceleration
\* times the effective speed, so that a direction shorter than 1 commands a
\* proportionally smaller speed; the yaw angular velocity is rotating times 4.
C31_VelocityProportionalToDirection ==
    [][ (stage = "Movement" /\ movementRan') =>
          \A e \in entities :
             LET ms    == movement_state'[e]
                 world == Rotate(yaw[e], clamp_length_max(ms.direction))
                 speed == IF ms.direction.z < 0 THEN 50 ELSE ms.speed
             IN  /\ velocity'[e].linvel.x = DivT(world.x * 60 * speed, 1000)
                 /\ velocity'[e].linvel.z = DivT(world.z * 60 * speed, 1000)
                 /\ velocity'[e].angvel_y = ms.rotating * 4 ]_vars

C33_ActionsReachOwnController ==
    [][ (stage = "Movement" /\ movementRan') =>
          \E owner \in [Clients -> entities] :
             /\ owner[1] # owner[2]
             /\ \A e \in entities :
                   LET own == SelectSeq(messages, LAMBDA m : owner[m.client_id] = e)
                   IN  movement_state'[e] =
                          ControllerStep(movement_state[e], velocity[e], yaw[e], own).ms ]_vars

\* Velocities the previous tick or the physics step may have left on a
\* controller.
LeftoverVelocities ==
    { [linvel |-> Vec3(a, b, c), angvel_y |-> w] :
         a \in {0, 9000}, b \in {-2000}, c \in {-3000, 9000}, w \in {0, -4000} }

\* C34: the linvel.x, linvel.z and angvel.y a `movement` run writes do not
\* depend on the velocity the controller had before the run: a second run
\* from the same movement state, facing and messages but any other velocity
\* writes the same three values.
C34_NoCarryOver ==
    [][ (stage = "Movement" /\ movementRan') =>
          \A e \in entities, v \in LeftoverVelocities :
             LET other == ControllerStep(movement_state[e], v, yaw[e], ReadBy(e)).vel
             IN  /\ other.linvel.x = velocity'[e].linvel.x
                 /\ other.linvel.z = velocity'[e].linvel.z
                 /\ other.angvel_y = velocity'[e].angvel_y ]_vars

\* A controller that was moving and stands still after the tick that folded
\* the release: nothing of the earlier velocity is left.
C34_Witness ==
    /\ AfterMovement
    /\ Len(folded) = 1
    /\ folded[1].kind = "AddMove"
    /\ \E e \in entities :
         /\ movement_state[e].direction = ZERO
         /\ velocity[e].linvel.x = 0
         /\ velocity[e].linvel.z = 0

\* C35: the CurrentAnimation of every animation player names the clip last
\* started on it (Idle 0, Walk 1, Run 2, Fall 3), after every step, and also
\* after an update_animation run that finds no movement state for the player.
C35_CurrentAnimationIsPlayingClip ==
    [][ LET Playing(ap) == ap.clip = CASE ap.current = "Idle" -> 0
                                       [] ap.current = "Walk" -> 1
                                       [] ap.current = "Run"  -> 2
                                       [] ap.current = "Fall" -> 3
        IN  /\ \A e \in DOMAIN animation_players' : Playing(animation_players'[e])
            /\ \A e \in DOMAIN animation_players :
                  Playing(AnimationUpdate(animation_players[e], {})) ]_vars

\* A player whose clip was replaced by the Fall clip in this frame.
C35_Witness ==
    \E e \in DOMAIN animation_players :
       /\ animation_players[e].played
       /\ animation_players[e].previous # "Fall"
       /\ animation_players[e].current = "Fall"
       /\ animation_players[e].clip = 3

\* C36: in the velocity-based classifier, after each update every animation
\* player is playing the clip of the category classified for its own
\* controller, and a play call is issued on a player only when that player's
\* category changed (at most one call, and to a clip other than the one the
\* player was playing).
C36_EachPlayerFollowsItsController ==
    legacy.ran =>
        \A p \in 1..legacy.players :
            LET own == LegacyWorld[IF p <= Len(LegacyWorld) THEN p ELSE 1]
                category == LegacyAnimationStep(4, <<>>, own.linvel,
                                                own.grounded).current_animation
            IN  /\ legacy.clip[p] = category
                /\ Len(legacy.played[p]) <= 1
                /\ legacy.played[p] # <<>> => legacy.previous[p] # legacy.clip[p]

\* C37: in the legacy controller a Jump message is written only in the tick
\* in which Space goes down; movement sets linvel.y to the jump impulse
\* exactly when it reads a Jump while the character is Grounded and otherwise
\* leaves linvel.y alone, in that tick and in every later one; a tick whose
\* messages hold no Move and no Walk leaves movement, and then damping, with
\* zero linvel.x and linvel.z.
C37_JumpEdgeTriggered ==
    [][ LET Has(msgs, kinds) == \E i \in 1..Len(msgs) : msgs[i].kind \in kinds
        IN  /\ (stage = "LegacyInput" /\ stage' = "LegacyGrounded")
                 => (Has(messages', {"Jump"}) <=> "Space" \in keys' \ keys)
            /\ (stage = "LegacyMovement" /\ stage' = "LegacyDamping")
                 => /\ legacy'.linvel.y =
                         IF Has(messages, {"Jump"}) /\ legacy.grounded
                         THEN JumpImpulseValue ELSE legacy.linvel.y
                    /\ ~Has(messages, {"Move", "Walk"})
                         => legacy'.linvel.x = 0 /\ legacy'.linvel.z = 0
            /\ (stage = "LegacyDamping" /\ stage' = "LegacyPhysics")
                 => /\ legacy'.linvel.y = legacy.linvel.y
                    /\ ~Has(legacy.read, {"Move", "Walk"})
                         => legacy'.linvel.x = 0 /\ legacy'.linvel.z = 0
      ]_vars

\* movement has just run on a Grounded character with Space still held from
\* an earlier tick in which the Jump was read in the air: no Jump is read, no
\* impulse is applied, and without Move or Walk the character stands still.
C37_Witness ==
    /\ stage = "LegacyDamping"
    /\ legacy.missed
    /\ legacy.grounded
    /\ "Space" \in keys
    /\ \A i \in 1..Len(legacy.read) : legacy.read[i].kind = "Rotate"
    /\ legacy.read # <<>>
    /\ legacy.linvel = ZERO

====
